---- MODULE Spec2Model ----
(***************************************************************************)
(* A state-machine model of homeassistant/components/zigbee.py: the module *)
(* globals filled in by setup(), the pin configuration classes, and the    *)
(* three entity classes ZigBeeDigitalIn, ZigBeeDigitalOut, ZigBeeAnalogIn. *)
(*                                                                         *)
(* Python values are modelled as follows.  None is the string "None" where *)
(* it is compared with other names, a text is a tuple of one-character     *)
(* strings (so that lower(), unhexlify() and float() are computed), a dict *)
(* is a record whose DOMAIN is the set of keys present, a float number of  *)
(* volts is an integer number of millivolts.                               *)
(***************************************************************************)
EXTENDS Integers, Sequences, FiniteSets, TLC

VARIABLES
    GPIO_DIGITAL_OUTPUT_LOW,   \* module global, None until setup()
    GPIO_DIGITAL_OUTPUT_HIGH,  \* module global, None until setup()
    ADC_PERCENTAGE,            \* module global, None until setup()
    DEVICE,                    \* module global, None until setup() opens the port
    setupResult,               \* "none" before setup() is called, then "True"/"False"
    listeners,                 \* listen_once registrations on the host's bus
    serial,                    \* the serial port: "none", "open" or "closed"
    stopped,                   \* the host has fired EVENT_HOMEASSISTANT_STOP
    cfgfile,                   \* the pin entries of the configuration file
    entity,                    \* the entity objects built from the entries
    jobs,                      \* jobs pending in hass.pool, per entity
    failed,                    \* the entities one of whose device reads has failed
    race,                      \* the pin and the two calls in flight, when calls interleave
    log,                       \* per entity, what has happened to it so far
    last                       \* the last call: what it was, what it did, how it ended

vars == <<GPIO_DIGITAL_OUTPUT_LOW, GPIO_DIGITAL_OUTPUT_HIGH, ADC_PERCENTAGE,
          DEVICE, setupResult, listeners, serial, stopped, cfgfile, entity, jobs,
          failed, race, log, last>>

globals == <<GPIO_DIGITAL_OUTPUT_LOW, GPIO_DIGITAL_OUTPUT_HIGH, ADC_PERCENTAGE,
             DEVICE, setupResult, listeners, serial, stopped>>

(***************************************************************************)
(* Values                                                                  *)
(***************************************************************************)
None == "None"

\* The constants of xbee_helper.const that setup() copies.
XB_GPIO_DIGITAL_OUTPUT_LOW == "xb.GPIO_DIGITAL_OUTPUT_LOW"
XB_GPIO_DIGITAL_OUTPUT_HIGH == "xb.GPIO_DIGITAL_OUTPUT_HIGH"
XB_ADC_PERCENTAGE == "xb.ADC_PERCENTAGE"
\* A pin setting the device can report that is neither output-low nor output-high.
XB_GPIO_DIGITAL_INPUT == "xb.GPIO_DIGITAL_INPUT"

STATE_ON == "on"
STATE_OFF == "off"

\* 1.2 volts, in millivolts
DEFAULT_ADC_MAX_VOLTS == 1200

\* The value of an analog entity: None, or a number.
NoValue == [none |-> TRUE]
Value(n) == [num |-> n]

\* An address as passed to the device: None, or bytes.
NoAddress == [none |-> TRUE]
Bytes(b) == [bytes |-> b]

Entities == {"e1", "e2"}

(***************************************************************************)
(* Text functions of the Python library, computed character by character   *)
(***************************************************************************)
UpperLetters == <<"A","B","C","D","E","F","G","H","I","J","K","L","M",
                  "N","O","P","Q","R","S","T","U","V","W","X","Y","Z">>
LowerLetters == <<"a","b","c","d","e","f","g","h","i","j","k","l","m",
                  "n","o","p","q","r","s","t","u","v","w","x","y","z">>
DecDigits == <<"0","1","2","3","4","5","6","7","8","9">>

IndexOf(seq, c) == CHOOSE i \in 1..Len(seq) : seq[i] = c
Has(seq, c) == \E i \in 1..Len(seq) : seq[i] = c

\* str.lower()
LowerChar(c) == IF Has(UpperLetters, c) THEN LowerLetters[IndexOf(UpperLetters, c)] ELSE c
Lower(s) == [i \in 1..Len(s) |-> LowerChar(s[i])]

IsHexDigit(c) == Has(DecDigits, c) \/ Has(SubSeq(LowerLetters, 1, 6), LowerChar(c))
HexVal(c) == IF Has(DecDigits, c) THEN IndexOf(DecDigits, c) - 1
             ELSE IndexOf(LowerLetters, LowerChar(c)) + 9

\* unhexlify() that reads the digits of a byte in the wrong order
unhexlify_swapped_nibbles(s) ==
    IF Len(s) % 2 # 0 \/ \E i \in 1..Len(s) : ~IsHexDigit(s[i])
    THEN [err |-> "binascii.Error"]
    ELSE [err |-> "none",
          val |-> [i \in 1..(Len(s) \div 2) |-> HexVal(s[2*i - 1]) + 16 * HexVal(s[2*i])]]

\* binascii.unhexlify(): an even number of hex digits of either case, or an error
unhexlify(s) ==
    IF Len(s) % 2 # 0 \/ \E i \in 1..Len(s) : ~IsHexDigit(s[i])
    THEN [err |-> "binascii.Error"]
    ELSE [err |-> "none",
          val |-> [i \in 1..(Len(s) \div 2) |-> 16 * HexVal(s[2*i - 1]) + HexVal(s[2*i])]]

\* binascii.hexlify(): two lower-case hex digits for each byte
HexDigits == DecDigits \o SubSeq(LowerLetters, 1, 6)
hexlify(b) ==
    [i \in 1..(2 * Len(b)) |->
        IF i % 2 = 1 THEN HexDigits[(b[(i + 1) \div 2] \div 16) + 1]
        ELSE HexDigits[(b[i \div 2] % 16) + 1]]

RECURSIVE DigitsToInt(_)
DigitsToInt(s) == IF s = <<>> THEN 0
                  ELSE 10 * DigitsToInt(SubSeq(s, 1, Len(s) - 1)) + (IndexOf(DecDigits, s[Len(s)]) - 1)

RECURSIVE Pow10(_)
Pow10(n) == IF n = 0 THEN 1 ELSE 10 * Pow10(n - 1)

\* float() of a decimal text with up to three decimals, in thousandths
float(s) ==
    LET neg == Len(s) > 0 /\ s[1] = "-"
        body == IF neg THEN Tail(s) ELSE s
        dots == {i \in 1..Len(body) : body[i] = "."}
        d == IF dots = {} THEN Len(body) + 1 ELSE CHOOSE i \in dots : TRUE
        ip == SubSeq(body, 1, d - 1)
        fp == SubSeq(body, d + 1, Len(body))
        ok == /\ Cardinality(dots) <= 1
              /\ \A i \in 1..Len(ip) : Has(DecDigits, ip[i])
              /\ \A i \in 1..Len(fp) : Has(DecDigits, fp[i])
              /\ Len(ip) + Len(fp) >= 1
              /\ Len(fp) <= 3
    IN  IF ok
        THEN [err |-> "none",
              val |-> (IF neg THEN -1 ELSE 1)
                      * (1000 * DigitsToInt(ip) + DigitsToInt(fp) * Pow10(3 - Len(fp)))]
        ELSE [err |-> "ValueError"]

\* dict.get(key, default)
Get(d, k, default) == IF k \in DOMAIN d THEN d[k] ELSE default

(***************************************************************************)
(* The configuration classes                                               *)
(***************************************************************************)
\* ZigBeeConfig.__init__: nothing is read from the dict but "poll"
ZigBeeConfig(config) ==
    [_config |-> config, _should_poll |-> Get(config, "poll", TRUE)]

\* ZigBeeConfig.name: config["name"], a KeyError when the key is missing
name(cfg) ==
    IF "name" \in DOMAIN cfg._config
    THEN [err |-> "none", val |-> cfg._config.name]
    ELSE [err |-> "KeyError"]

\* ZigBeePinConfig.pin: config["pin"], a KeyError when the key is missing
pin(cfg) ==
    IF "pin" \in DOMAIN cfg._config
    THEN [err |-> "none", val |-> cfg._config.pin]
    ELSE [err |-> "KeyError"]

\* ZigBeeConfig.address: decoded each time the property is read
address(cfg) ==
    IF "address" \in DOMAIN cfg._config
    THEN LET b == unhexlify(cfg._config.address)
         IN  IF b.err = "none" THEN [err |-> "none", val |-> Bytes(b.val)]
             ELSE [err |-> b.err]
    ELSE [err |-> "none", val |-> NoAddress]

should_poll(cfg) == cfg._should_poll

\* ZigBeeDigitalPinConfig.boolean_maps, the forward dict; it reads the module
\* globals as they are when the configuration object is built
bool2state_of(config) ==
    IF Lower(Get(config, "on_state", <<>>)) = <<"l", "o", "w">>
    THEN (TRUE :> GPIO_DIGITAL_OUTPUT_LOW) @@ (FALSE :> GPIO_DIGITAL_OUTPUT_HIGH)
    ELSE (TRUE :> GPIO_DIGITAL_OUTPUT_HIGH) @@ (FALSE :> GPIO_DIGITAL_OUTPUT_LOW)

\* {v: k for k, v in bool2state.items()}: one entry per distinct value; when
\* the two values are equal the key that is iterated last wins, and the
\* iteration order of a dict with keys True and False depends on the Python
\* build, so every inverse the comprehension can produce is a possible result
state2bool_of(b2s) ==
    {f \in [{b2s[b] : b \in BOOLEAN} -> BOOLEAN] : \A v \in DOMAIN f : b2s[f[v]] = v}

\* ZigBeeDigitalPinConfig.__init__ (also ZigBeeDigitalInConfig, its alias)
ZigBeeDigitalPinConfig(config, s2b) ==
    [_config |-> config,
     _should_poll |-> ZigBeeConfig(config)._should_poll,
     _bool2state |-> bool2state_of(config),
     _state2bool |-> s2b]

\* ZigBeeDigitalOutConfig.__init__ without its second assignment to _should_poll
ZigBeeDigitalOutConfig_inherited_default(config, s2b) ==
    ZigBeeDigitalPinConfig(config, s2b)

\* ZigBeeDigitalOutConfig.__init__
ZigBeeDigitalOutConfig(config, s2b) ==
    [ZigBeeDigitalPinConfig(config, s2b) EXCEPT !._should_poll = Get(config, "poll", FALSE)]

\* ZigBeeAnalogInConfig has no constructor of its own
ZigBeeAnalogInConfig(config) == ZigBeeConfig(config)

\* max_voltage returning the default whatever the entry says
max_voltage_default_only(cfg) ==
    [err |-> "none", val |-> DEFAULT_ADC_MAX_VOLTS]

\* ZigBeeAnalogInConfig.max_voltage
max_voltage(cfg) ==
    IF "max_volts" \in DOMAIN cfg._config
    THEN float(cfg._config.max_volts)
    ELSE [err |-> "none", val |-> DEFAULT_ADC_MAX_VOLTS]

(***************************************************************************)
(* The entity classes                                                      *)
(***************************************************************************)
Digital == {"ZigBeeDigitalIn", "ZigBeeDigitalOut"}
Analog == "ZigBeeAnalogIn"

NoEntity == [exists |-> FALSE]

\* What a call returns to the model: how it ended, the entity afterwards and
\* the calls it made on the device and on the host, in order
Raise(self, err, events) == [err |-> err, self |-> self, events |-> events]
Return(self, events) == [err |-> "none", self |-> self, events |-> events]

\* hass.pool.add_job(JobPriority.EVENT_STATE, (self.update_ha_state, True))
add_job == [call |-> "add_job", job |-> "update_ha_state", force_refresh |-> TRUE]

\* The constructor without its add_job call
ZigBeeDigitalIn_no_job(cls, config) ==
    Return([exists |-> TRUE, cls |-> cls, _config |-> config, _state |-> FALSE], <<>>)

\* The constructor with self._state = True
ZigBeeDigitalIn_starts_on(cls, config) ==
    Return([exists |-> TRUE, cls |-> cls, _config |-> config, _state |-> TRUE],
           <<add_job>>)

\* ZigBeeDigitalIn.__init__ (inherited by ZigBeeDigitalOut)
ZigBeeDigitalIn(cls, config) ==
    Return([exists |-> TRUE, cls |-> cls, _config |-> config, _state |-> FALSE],
           <<add_job>>)

\* ZigBeeAnalogIn.__init__
ZigBeeAnalogIn(config) ==
    Return([exists |-> TRUE, cls |-> Analog, _config |-> config, _value |-> NoValue],
           <<add_job>>)

\* ZigBeeDigitalIn.should_poll and ZigBeeAnalogIn.should_poll
entity_should_poll(self) == should_poll(self._config)

\* ZigBeeDigitalIn.is_on and .state
is_on(self) == self._state
state(self) == IF is_on(self) THEN STATE_ON ELSE STATE_OFF

\* ZigBeeAnalogIn.state and .unit_of_measurement
analog_state(self) == self._value
unit_of_measurement(self) == "%"

\* The state the host reads from the entity when it is notified
observable(self) == IF self.cls = Analog THEN analog_state(self) ELSE state(self)

\* The device's answers.  A read returns a pin setting or fails; a write is
\* acknowledged or fails; an analog read returns a number or fails.
Failure == [ok |-> FALSE, ret |-> "-"]
AnalogReadings == {0, 50, 100, 150}
GpioAnswers == {Failure} \cup {[ok |-> TRUE, ret |-> l] :
                   l \in {XB_GPIO_DIGITAL_OUTPUT_LOW, XB_GPIO_DIGITAL_OUTPUT_HIGH, XB_GPIO_DIGITAL_INPUT}}
WriteAnswers == {Failure, [ok |-> TRUE, ret |-> None]}
AnalogAnswers == {Failure} \cup {[ok |-> TRUE, ret |-> n] : n \in AnalogReadings}

\* The lookup written as state2bool.get(pin_state, False)
state2bool_lookup_default(cfg, pin_state) ==
    [err |-> "none",
     val |-> IF pin_state \in DOMAIN cfg._state2bool THEN cfg._state2bool[pin_state] ELSE FALSE]

\* The level compared with the high constant, whatever on_state says
state2bool_lookup_high_is_on(cfg, pin_state) ==
    IF pin_state \in DOMAIN cfg._state2bool
    THEN [err |-> "none", val |-> pin_state = GPIO_DIGITAL_OUTPUT_HIGH]
    ELSE [err |-> "KeyError"]

\* self._config.state2bool[pin_state]
state2bool_lookup(cfg, pin_state) ==
    IF pin_state \in DOMAIN cfg._state2bool
    THEN [err |-> "none", val |-> cfg._state2bool[pin_state]]
    ELSE [err |-> "KeyError"]

\* ZigBeeDigitalIn.update.  DEVICE.get_gpio_pin is looked up first, then the
\* arguments are evaluated left to right, then the device is asked.
ZigBeeDigitalIn_update(self, answer) ==
    LET cfg == self._config
        p == pin(cfg)
        a == address(cfg)
    IN  IF DEVICE = None THEN Raise(self, "AttributeError", <<>>)
        ELSE IF p.err # "none" THEN Raise(self, p.err, <<>>)
        ELSE IF a.err # "none" THEN Raise(self, a.err, <<>>)
        ELSE LET call == [call |-> "get_gpio_pin", pin |-> p.val, address |-> a.val,
                          ok |-> answer.ok, ret |-> answer.ret]
                 b == state2bool_lookup(cfg, answer.ret)
             IN  IF ~answer.ok THEN Raise(self, "DriverError", <<call>>)
                 ELSE IF b.err # "none" THEN Raise(self, b.err, <<call>>)
                 ELSE Return([self EXCEPT !._state = b.val], <<call>>)

\* self.update_ha_state() as _set_state calls it: no refresh, one notification
\* carrying the state the entity has at that moment
update_ha_state(self) ==
    [call |-> "update_ha_state", force_refresh |-> FALSE, state |-> observable(self)]

\* _set_state notifying the host before it assigns self._state
set_state_echo_notify_first(self, desired, call) ==
    LET new == [self EXCEPT !._state = desired]
    IN  IF ~entity_should_poll(new)
        THEN Return(new, <<call, update_ha_state(self)>>)
        ELSE Return(new, <<call>>)

\* ZigBeeDigitalOut._set_state, after the device has acknowledged the write
set_state_echo(self, desired, call) ==
    LET new == [self EXCEPT !._state = desired]
    IN  IF ~entity_should_poll(new)
        THEN Return(new, <<call, update_ha_state(new)>>)
        ELSE Return(new, <<call>>)

\* _set_state assigning self._state before it writes to the device
ZigBeeDigitalOut_set_state_assign_first(self, desired, answer) ==
    LET cfg == self._config
        p == pin(cfg)
        a == address(cfg)
        new == [self EXCEPT !._state = desired]
    IN  IF DEVICE = None THEN Raise(new, "AttributeError", <<>>)
        ELSE IF p.err # "none" THEN Raise(new, p.err, <<>>)
        ELSE IF a.err # "none" THEN Raise(new, a.err, <<>>)
        ELSE LET call == [call |-> "set_gpio_pin", pin |-> p.val,
                          value |-> cfg._bool2state[desired], address |-> a.val,
                          ok |-> answer.ok, ret |-> answer.ret]
             IN  IF ~answer.ok THEN Raise(new, "DriverError", <<call>>)
                 ELSE set_state_echo(self, desired, call)

\* ZigBeeDigitalOut._set_state
ZigBeeDigitalOut_set_state(self, desired, answer) ==
    LET cfg == self._config
        p == pin(cfg)
        a == address(cfg)
    IN  IF DEVICE = None THEN Raise(self, "AttributeError", <<>>)
        ELSE IF p.err # "none" THEN Raise(self, p.err, <<>>)
        ELSE IF a.err # "none" THEN Raise(self, a.err, <<>>)
        ELSE LET call == [call |-> "set_gpio_pin", pin |-> p.val,
                          value |-> cfg._bool2state[desired], address |-> a.val,
                          ok |-> answer.ok, ret |-> answer.ret]
             IN  IF ~answer.ok THEN Raise(self, "DriverError", <<call>>)
                 ELSE set_state_echo(self, desired, call)

\* update() that forgets the last reading when the device fails
ZigBeeAnalogIn_update_clears_on_error(self, answer) ==
    LET cfg == self._config
        p == pin(cfg)
        v == max_voltage(cfg)
        a == address(cfg)
    IN  IF DEVICE = None THEN Raise(self, "AttributeError", <<>>)
        ELSE IF p.err # "none" THEN Raise(self, p.err, <<>>)
        ELSE IF v.err # "none" THEN Raise(self, v.err, <<>>)
        ELSE IF a.err # "none" THEN Raise(self, a.err, <<>>)
        ELSE LET call == [call |-> "read_analog_pin", pin |-> p.val, max_volts |-> v.val,
                          address |-> a.val, mode |-> ADC_PERCENTAGE,
                          ok |-> answer.ok, ret |-> answer.ret]
             IN  IF ~answer.ok
                 THEN Raise([self EXCEPT !._value = NoValue], "DriverError", <<call>>)
                 ELSE Return([self EXCEPT !._value = Value(answer.ret)], <<call>>)

\* ZigBeeAnalogIn.update
ZigBeeAnalogIn_update(self, answer) ==
    LET cfg == self._config
        p == pin(cfg)
        v == max_voltage(cfg)
        a == address(cfg)
    IN  IF DEVICE = None THEN Raise(self, "AttributeError", <<>>)
        ELSE IF p.err # "none" THEN Raise(self, p.err, <<>>)
        ELSE IF v.err # "none" THEN Raise(self, v.err, <<>>)
        ELSE IF a.err # "none" THEN Raise(self, a.err, <<>>)
        ELSE LET call == [call |-> "read_analog_pin", pin |-> p.val, max_volts |-> v.val,
                          address |-> a.val, mode |-> ADC_PERCENTAGE,
                          ok |-> answer.ok, ret |-> answer.ret]
             IN  IF ~answer.ok THEN Raise(self, "DriverError", <<call>>)
                 ELSE Return([self EXCEPT !._value = Value(answer.ret)], <<call>>)

\* update() of whichever class the entity has
update(self, answer) ==
    IF self.cls = Analog THEN ZigBeeAnalogIn_update(self, answer)
    ELSE ZigBeeDigitalIn_update(self, answer)

ReadAnswers(self) == IF self.cls = Analog THEN AnalogAnswers ELSE GpioAnswers

\* The host's Entity.update_ha_state(force_refresh=True): update(), and when
\* that returns, one notification of the state the entity then has
refresh_and_notify(self, answer) ==
    LET r == update(self, answer)
    IN  IF r.err # "none" THEN r
        ELSE Return(r.self, r.events \o
                 <<[call |-> "update_ha_state", force_refresh |-> TRUE,
                    state |-> observable(r.self)]>>)

(***************************************************************************)
(* The configuration file: the dicts the pin entries can be                *)
(***************************************************************************)
Opt(S, k, V) == S \cup {d @@ (k :> v) : d \in S, v \in V}

OnStates == {<<"l","o","w">>, <<"L","O","W">>, <<"h","i","g","h">>, <<"u","p">>}
Addresses == {<<"1","A">>, <<"z","z">>}
MaxVolts == {<<"2",".","4">>, <<"3",".","3">>, <<"x">>}

CommonDicts ==
    Opt(Opt(Opt(Opt({[platform |-> "zigbee"]},
        "name", {"Lamp"}), "pin", {"D0"}), "address", Addresses), "poll", BOOLEAN)
DigitalDicts == Opt(CommonDicts, "on_state", OnStates)
AnalogDicts == Opt(CommonDicts, "max_volts", MaxVolts)

NoEntry == [cls |-> "none"]
AllEntries ==
    {[cls |-> c, config |-> d] : c \in Digital, d \in DigitalDicts}
    \cup {[cls |-> Analog, config |-> d] : d \in AnalogDicts}

\* Entries with a name and a pin on the local device: an input of either
\* kind, an output that is not polled, and a polled output that is on when low
PlainEntries ==
    {x \in AllEntries :
        /\ {"name", "pin"} \subseteq DOMAIN x.config
        /\ "address" \notin DOMAIN x.config
        /\ "max_volts" \notin DOMAIN x.config
        /\ "poll" \in DOMAIN x.config <=> "on_state" \in DOMAIN x.config
        /\ "poll" \in DOMAIN x.config =>
              /\ x.cls = "ZigBeeDigitalOut"
              /\ x.config.poll
              /\ x.config.on_state = <<"l","o","w">>}

(***************************************************************************)
(* The state after the module is imported                                  *)
(***************************************************************************)
Call(op, e, arg, r, pre) ==
    [op |-> op, ent |-> e, arg |-> arg, err |-> r.err, events |-> r.events, pre |-> pre]

\* hass.bus.listen_once(EVENT_HOMEASSISTANT_STOP, close_serial_port)
listen_once == [call |-> "listen_once", event |-> "homeassistant_stop",
                listener |-> "close_serial_port"]

\* No call in flight; the pin at a level
NoCalls(level) ==
    [hw |-> level, upd |-> "idle", pin_state |-> None, set |-> "idle", desired |-> FALSE,
     wrote |-> FALSE, written |-> FALSE]

Imported ==
    /\ race = NoCalls(XB_GPIO_DIGITAL_OUTPUT_LOW)
    /\ log = [e \in Entities |-> {}]
    /\ GPIO_DIGITAL_OUTPUT_LOW = None
    /\ GPIO_DIGITAL_OUTPUT_HIGH = None
    /\ ADC_PERCENTAGE = None
    /\ DEVICE = None
    /\ setupResult = "none"
    /\ listeners = 0
    /\ serial = "none"
    /\ stopped = FALSE
    /\ entity = [e \in Entities |-> NoEntity]
    /\ jobs = [e \in Entities |-> 0]
    /\ failed = {}
    /\ last = Call("import", "-", FALSE, Return(NoEntity, <<>>), NoEntity)

\* The texts of at most MaxHexLen characters over three hex digits, a letter
\* among them in both cases
MaxHexLen == 4
HexAlphabet == {"1", "a", "A"}
HexTexts == UNION {[1..n -> HexAlphabet] : n \in 0..MaxHexLen}

\* One entry, a polled output, with any of these texts as its address
InitHex ==
    /\ Imported
    /\ cfgfile \in {[e \in Entities |->
                       IF e = "e1"
                       THEN [cls |-> "ZigBeeDigitalOut",
                             config |-> [platform |-> "zigbee", name |-> "Lamp", pin |-> "D0",
                                         poll |-> TRUE, address |-> a]]
                       ELSE NoEntry] : a \in HexTexts}

\* setup() has returned True; one entry, an output with its name and its pin
\* on the local device, any "poll" and any "on_state"; the pin at either level
InitRace ==
    /\ GPIO_DIGITAL_OUTPUT_LOW = XB_GPIO_DIGITAL_OUTPUT_LOW
    /\ GPIO_DIGITAL_OUTPUT_HIGH = XB_GPIO_DIGITAL_OUTPUT_HIGH
    /\ ADC_PERCENTAGE = XB_ADC_PERCENTAGE
    /\ DEVICE = "ZigBee"
    /\ setupResult = "True"
    /\ listeners = 1
    /\ serial = "open"
    /\ stopped = FALSE
    /\ entity = [e \in Entities |-> NoEntity]
    /\ jobs = [e \in Entities |-> 0]
    /\ failed = {}
    /\ last = Call("setup", "-", FALSE, Return(NoEntity, <<listen_once>>), NoEntity)
    /\ log = [e \in Entities |-> {}]
    /\ race \in {NoCalls(l) : l \in {XB_GPIO_DIGITAL_OUTPUT_LOW, XB_GPIO_DIGITAL_OUTPUT_HIGH}}
    /\ cfgfile \in {[e \in Entities |-> IF e = "e1" THEN x ELSE NoEntry] :
                       x \in {y \in AllEntries :
                                 /\ y.cls = "ZigBeeDigitalOut"
                                 /\ {"name", "pin"} \subseteq DOMAIN y.config
                                 /\ "address" \notin DOMAIN y.config}}

\* Two entries, each a plain one, the second an output that is not polled
Init ==
    /\ Imported
    /\ cfgfile \in {f \in [Entities -> PlainEntries] :
                     f["e2"].cls = "ZigBeeDigitalOut" /\ "poll" \notin DOMAIN f["e2"].config}

\* One entry, any dict
InitOne ==
    /\ Imported
    /\ cfgfile \in {[e \in Entities |-> IF e = "e1" THEN x ELSE NoEntry] : x \in AllEntries}

(***************************************************************************)
(* The operations                                                          *)
(***************************************************************************)
\* setup() with listen_once called before the port is opened
Setup_listens_first(opened) ==
    /\ setupResult = "none"
    /\ ~stopped
    /\ GPIO_DIGITAL_OUTPUT_LOW' = XB_GPIO_DIGITAL_OUTPUT_LOW
    /\ GPIO_DIGITAL_OUTPUT_HIGH' = XB_GPIO_DIGITAL_OUTPUT_HIGH
    /\ ADC_PERCENTAGE' = XB_ADC_PERCENTAGE
    /\ listeners' = listeners + 1
    /\ IF opened
       THEN /\ DEVICE' = "ZigBee"
            /\ serial' = "open"
            /\ setupResult' = "True"
            /\ last' = Call("setup", "-", FALSE, Return(NoEntity, <<listen_once>>), NoEntity)
       ELSE /\ UNCHANGED <<DEVICE, serial>>
            /\ setupResult' = "False"
            /\ last' = Call("setup", "-", FALSE,
                            Raise(NoEntity, "SerialException", <<listen_once>>), NoEntity)
    /\ UNCHANGED <<stopped, cfgfile, entity, jobs, failed, race, log>>

\* setup(): the constants are copied, then the serial port is opened; when
\* Serial() raises, False is returned, otherwise DEVICE is set, the listener
\* is registered and True is returned
Setup(opened) ==
    /\ setupResult = "none"
    /\ ~stopped
    /\ GPIO_DIGITAL_OUTPUT_LOW' = XB_GPIO_DIGITAL_OUTPUT_LOW
    /\ GPIO_DIGITAL_OUTPUT_HIGH' = XB_GPIO_DIGITAL_OUTPUT_HIGH
    /\ ADC_PERCENTAGE' = XB_ADC_PERCENTAGE
    /\ IF opened
       THEN /\ DEVICE' = "ZigBee"
            /\ serial' = "open"
            /\ listeners' = listeners + 1
            /\ setupResult' = "True"
            /\ last' = Call("setup", "-", FALSE, Return(NoEntity, <<listen_once>>), NoEntity)
       ELSE /\ UNCHANGED <<DEVICE, serial, listeners>>
            /\ setupResult' = "False"
            /\ last' = Call("setup", "-", FALSE, Raise(NoEntity, "SerialException", <<>>), NoEntity)
    /\ UNCHANGED <<stopped, cfgfile, entity, jobs, failed, race, log>>

\* close_serial_port(): DEVICE.zb.serial.close()
close_serial_port == "closed"

\* The host fires EVENT_HOMEASSISTANT_STOP: a listen_once listener is called
\* and removed
Stop ==
    /\ ~stopped
    /\ stopped' = TRUE
    /\ listeners' = 0
    /\ serial' = IF listeners > 0 THEN close_serial_port ELSE serial
    /\ last' = Call("stop", "-", FALSE,
                    Return(NoEntity, [i \in 1..listeners |-> [call |-> "close_serial_port"]]),
                    NoEntity)
    /\ UNCHANGED <<GPIO_DIGITAL_OUTPUT_LOW, GPIO_DIGITAL_OUTPUT_HIGH, ADC_PERCENTAGE,
                   DEVICE, setupResult, cfgfile, entity, jobs, failed, race, log>>

\* What the device can answer: nothing but a failure once the port is closed
Answers(S) == IF serial = "closed" THEN {Failure} ELSE S

\* The number of jobs a call has submitted to hass.pool
Submitted(events) == Cardinality({i \in DOMAIN events : events[i].call = "add_job"})

\* A device read of the call has failed
ReadFailed(r) == r.err = "DriverError"

\* What a call that has ended adds to the entity's log: "refreshed" when an
\* update() returned, "written" when a _set_state() returned
Outcome(op, r) ==
    IF r.err # "none" THEN {}
    ELSE IF op = "_set_state" THEN {"written"} ELSE {"refreshed"}

\* The platform builds the configuration object of an entry and the entity on it
Construct(e) ==
    /\ cfgfile[e].cls # "none"
    /\ ~entity[e].exists
    /\ LET x == cfgfile[e]
       IN  \E r \in IF x.cls = Analog
                   THEN {ZigBeeAnalogIn(ZigBeeAnalogInConfig(x.config))}
                   ELSE {ZigBeeDigitalIn(x.cls,
                            IF x.cls = "ZigBeeDigitalOut"
                            THEN ZigBeeDigitalOutConfig(x.config, s2b)
                            ELSE ZigBeeDigitalPinConfig(x.config, s2b)) :
                         s2b \in state2bool_of(bool2state_of(x.config))} :
             /\ entity' = [entity EXCEPT ![e] = r.self]
             /\ jobs' = [jobs EXCEPT ![e] = @ + Submitted(r.events)]
             /\ last' = Call("__init__", e, FALSE, r, entity[e])
    /\ UNCHANGED <<globals, cfgfile, failed, race, log>>

\* A worker of hass.pool runs the job the constructor submitted
RunJob(e) ==
    /\ jobs[e] > 0
    /\ \E answer \in Answers(ReadAnswers(entity[e])) :
         LET r == refresh_and_notify(entity[e], answer)
         IN  /\ entity' = [entity EXCEPT ![e] = r.self]
             /\ last' = Call("job", e, FALSE, r, entity[e])
             /\ failed' = IF ReadFailed(r) THEN failed \cup {e} ELSE failed
             /\ log' = [log EXCEPT ![e] = @ \cup Outcome("job", r)]
    /\ jobs' = [jobs EXCEPT ![e] = @ - 1]
    /\ UNCHANGED <<globals, cfgfile, race>>

\* The host polls an entity whose should_poll is true
Poll(e) ==
    /\ entity[e].exists
    /\ entity_should_poll(entity[e])
    /\ \E answer \in Answers(ReadAnswers(entity[e])) :
         LET r == refresh_and_notify(entity[e], answer)
         IN  /\ entity' = [entity EXCEPT ![e] = r.self]
             /\ last' = Call("poll", e, FALSE, r, entity[e])
             /\ failed' = IF ReadFailed(r) THEN failed \cup {e} ELSE failed
             /\ log' = [log EXCEPT ![e] = @ \cup Outcome("poll", r)]
    /\ UNCHANGED <<globals, cfgfile, jobs, race>>

\* update() called on the entity
Update(e) ==
    /\ entity[e].exists
    /\ \E answer \in Answers(ReadAnswers(entity[e])) :
         LET r == update(entity[e], answer)
         IN  /\ entity' = [entity EXCEPT ![e] = r.self]
             /\ last' = Call("update", e, FALSE, r, entity[e])
             /\ failed' = IF ReadFailed(r) THEN failed \cup {e} ELSE failed
             /\ log' = [log EXCEPT ![e] = @ \cup Outcome("update", r)]
    /\ UNCHANGED <<globals, cfgfile, jobs, race>>

\* _set_state keeping one cached state for every output of the same pin
Turn_every_output_of_the_pin(e, desired) ==
    /\ entity[e].exists
    /\ entity[e].cls = "ZigBeeDigitalOut"
    /\ \E answer \in Answers(WriteAnswers) :
         LET r == ZigBeeDigitalOut_set_state(entity[e], desired, answer)
         IN  /\ entity' = [o \in Entities |->
                             IF o = e THEN r.self
                             ELSE IF /\ r.err = "none"
                                     /\ entity[o].exists
                                     /\ entity[o].cls = "ZigBeeDigitalOut"
                                     /\ pin(entity[o]._config) = pin(entity[e]._config)
                                  THEN [entity[o] EXCEPT !._state = desired]
                                  ELSE entity[o]]
             /\ last' = Call("_set_state", e, desired, r, entity[e])
             /\ log' = [log EXCEPT ![e] = @ \cup Outcome("_set_state", r)]
    /\ UNCHANGED <<globals, cfgfile, jobs, failed, race>>

\* turn_on() and turn_off() of an output
Turn(e, desired) ==
    /\ entity[e].exists
    /\ entity[e].cls = "ZigBeeDigitalOut"
    /\ \E answer \in Answers(WriteAnswers) :
         LET r == ZigBeeDigitalOut_set_state(entity[e], desired, answer)
         IN  /\ entity' = [entity EXCEPT ![e] = r.self]
             /\ last' = Call("_set_state", e, desired, r, entity[e])
             /\ log' = [log EXCEPT ![e] = @ \cup Outcome("_set_state", r)]
    /\ UNCHANGED <<globals, cfgfile, jobs, failed, race>>

turn_on(e) == Turn(e, TRUE)
turn_off(e) == Turn(e, FALSE)

\* The host reads the entity's name
ReadName(e) ==
    /\ entity[e].exists
    /\ last' = Call("name", e, FALSE,
                    [err |-> name(entity[e]._config).err, events |-> <<>>], entity[e])
    /\ UNCHANGED <<globals, cfgfile, entity, jobs, failed, race, log>>

(***************************************************************************)
(* The calls step by step, for update() and _set_state() running in two    *)
(* workers of hass.pool.  The device serves one request at a time, so a    *)
(* step is one request to the device or the assignment that follows it.    *)
(* The pin keeps the level last written and reads return it.               *)
(***************************************************************************)
PinAnswers == {Failure, [ok |-> TRUE, ret |-> race.hw]}

\* update(), line 226: pin_state = DEVICE.get_gpio_pin(pin, address); the
\* call is the job of the constructor or a later call of the host
UpdateRead(e, fromJob) ==
    /\ entity[e].exists
    /\ entity[e].cls \in Digital
    /\ race.upd = "idle"
    /\ fromJob => jobs[e] > 0
    /\ \E answer \in Answers(PinAnswers) :
         LET r == ZigBeeDigitalIn_update(entity[e], answer)
         IN  race' = IF r.events # <<>> /\ answer.ok
                     THEN [race EXCEPT !.upd = e, !.pin_state = answer.ret]
                     ELSE race
    /\ jobs' = IF fromJob THEN [jobs EXCEPT ![e] = @ - 1] ELSE jobs
    /\ UNCHANGED <<globals, cfgfile, entity, failed, log, last>>

\* update(), line 229: self._state = self._config.state2bool[pin_state]
UpdateAssign(e) ==
    /\ race.upd = e
    /\ LET b == state2bool_lookup(entity[e]._config, race.pin_state)
       IN  entity' = IF b.err = "none" THEN [entity EXCEPT ![e]._state = b.val] ELSE entity
    /\ race' = [race EXCEPT !.upd = "idle", !.pin_state = None]
    /\ UNCHANGED <<globals, cfgfile, jobs, failed, log, last>>

\* _set_state(), lines 237-240: DEVICE.set_gpio_pin(pin, bool2state[state], address)
SetWrite(e, desired) ==
    /\ entity[e].exists
    /\ entity[e].cls = "ZigBeeDigitalOut"
    /\ race.set = "idle"
    /\ \E answer \in Answers(WriteAnswers) :
         LET r == ZigBeeDigitalOut_set_state(entity[e], desired, answer)
         IN  race' = IF r.err = "none"
                     THEN [race EXCEPT !.set = e, !.desired = desired,
                                       !.hw = entity[e]._config._bool2state[desired],
                                       !.wrote = TRUE, !.written = desired]
                     ELSE race
    /\ UNCHANGED <<globals, cfgfile, entity, jobs, failed, log, last>>

\* _set_state(), lines 241-243: self._state = state, and the notification
SetAssign(e) ==
    /\ race.set = e
    /\ entity' = [entity EXCEPT ![e] =
                     set_state_echo(entity[e], race.desired, [call |-> "set_gpio_pin"]).self]
    /\ race' = [race EXCEPT !.set = "idle", !.desired = FALSE]
    /\ UNCHANGED <<globals, cfgfile, jobs, failed, log, last>>

NextRace ==
    \/ \E e \in Entities : Construct(e)
    \/ \E e \in Entities, fromJob \in BOOLEAN : UpdateRead(e, fromJob)
    \/ \E e \in Entities : UpdateAssign(e)
    \/ \E e \in Entities, desired \in BOOLEAN : SetWrite(e, desired)
    \/ \E e \in Entities : SetAssign(e)

\* setup(), the constructor and the calls that pass the address to the device
NextHex ==
    \/ \E opened \in BOOLEAN : Setup(opened)
    \/ \E e \in Entities : Construct(e)
    \/ \E e \in Entities : Update(e)
    \/ \E e \in Entities : turn_on(e)
    \/ \E e \in Entities : turn_off(e)

Next ==
    \/ \E opened \in BOOLEAN : Setup(opened)
    \/ Stop
    \/ \E e \in Entities : Construct(e)
    \/ \E e \in Entities : RunJob(e)
    \/ \E e \in Entities : Poll(e)
    \/ \E e \in Entities : Update(e)
    \/ \E e \in Entities : turn_on(e)
    \/ \E e \in Entities : turn_off(e)
    \/ \E e \in Entities : ReadName(e)

Spec == Init /\ [][Next]_vars
SpecOne == InitOne /\ [][Next]_vars
SpecHex == InitHex /\ [][NextHex]_vars
SpecRace == InitRace /\ [][NextRace]_vars

(***************************************************************************)
(* Properties                                                              *)
(***************************************************************************)
Refreshes == {"update", "job", "poll"}
LowSpellings == {<<"l","o","w">>, <<"L","O","W">>}
DeviceReads == {"get_gpio_pin", "read_analog_pin"}

\* The last call reached the device, and the device answered it / failed
Served == last.events # <<>> /\ last.events[1].ok
Unserved == last.events # <<>> /\ ~last.events[1].ok

\* C1: when the write of _set_state(desired) is acknowledged, the call
\* returns, the cached state is desired and the device was not read; an
\* output that is not polled notifies the host once, after the write and with
\* the new state; a polled output does not notify.
C1_SetStateEcho ==
    (last.op = "_set_state" /\ Served) =>
        LET self == entity[last.ent]
            polled == Get(cfgfile[last.ent].config, "poll", FALSE)
        IN  /\ last.err = "none"
            /\ self._state = last.arg
            /\ last.events[1].call = "set_gpio_pin"
            /\ \A i \in DOMAIN last.events : last.events[i].call \notin DeviceReads
            /\ IF polled
               THEN Len(last.events) = 1
               ELSE /\ Len(last.events) = 2
                    /\ last.events[2].call = "update_ha_state"
                    /\ ~last.events[2].force_refresh
                    /\ last.events[2].state = IF last.arg THEN STATE_ON ELSE STATE_OFF

\* turn_on() of an output that was off and is not polled has been acknowledged
C1_Witness ==
    /\ last.op = "_set_state" /\ Served /\ last.arg
    /\ ~last.pre._state
    /\ entity[last.ent]._state
    /\ Len(last.events) = 2

\* C2: when the write of _set_state fails, the error reaches the caller, the
\* entity is as it was before the call and the host is not notified; the
\* same holds however else _set_state fails.
C2_SetStateFailure ==
    /\ (last.op = "_set_state" /\ Unserved) =>
           /\ last.err = "DriverError"
           /\ Len(last.events) = 1
    /\ (last.op = "_set_state" /\ last.err # "none") => entity[last.ent] = last.pre

\* turn_off() of an output that is on has failed at the device
C2_Witness ==
    /\ last.op = "_set_state" /\ Unserved /\ ~last.arg
    /\ last.pre._state
    /\ entity[last.ent]._state

\* C3: when update() of a digital entity is given a level that is not one of
\* the two levels of its configuration (or not one of the driver's two), it
\* raises the lookup error, the cached state is as before, the host is not
\* notified.
C3_UnmappedLevel ==
    (/\ last.op \in Refreshes
     /\ entity[last.ent].cls \in Digital
     /\ Served
     /\ LET b2s == entity[last.ent]._config._bool2state
        IN  \/ last.events[1].ret \notin {b2s[TRUE], b2s[FALSE]}
            \/ last.events[1].ret \notin {XB_GPIO_DIGITAL_OUTPUT_LOW, XB_GPIO_DIGITAL_OUTPUT_HIGH})
    => /\ last.err = "KeyError"
       /\ entity[last.ent] = last.pre
       /\ Len(last.events) = 1

\* An entity that is on was told the pin is a digital input
C3_Witness ==
    /\ last.op \in Refreshes
    /\ entity[last.ent].cls \in Digital
    /\ Served
    /\ last.events[1].ret = XB_GPIO_DIGITAL_INPUT
    /\ last.pre._state
    /\ entity[last.ent]._state
    /\ last.err = "KeyError"

\* C4: after update() of a digital entity has returned, the cached state is
\* the level the device returned for the entity's pin and address, read
\* through the polarity of on_state ("low" in either case: on when low;
\* anything else: on when high), whatever was cached; the state shown is
\* "on" exactly when the cached state is true.
C4_UpdateOverwrites ==
    (last.op \in Refreshes /\ entity[last.ent].cls \in Digital /\ last.err = "none") =>
        LET self == entity[last.ent]
            config == cfgfile[last.ent].config
            read == last.events[1]
            low == "on_state" \in DOMAIN config /\ config.on_state \in LowSpellings
        IN  /\ read.call = "get_gpio_pin" /\ read.ok
            /\ read.pin = config.pin
            /\ read.address = IF "address" \in DOMAIN config THEN Bytes(<<26>>) ELSE NoAddress
            /\ self._state = IF low THEN read.ret = XB_GPIO_DIGITAL_OUTPUT_LOW
                                    ELSE read.ret = XB_GPIO_DIGITAL_OUTPUT_HIGH
            /\ state(self) = IF self._state THEN "on" ELSE "off"
            /\ last.op # "update" =>
                   /\ Len(last.events) = 2
                   /\ last.events[2].state = state(self)

\* on_state "LOW": an output commanded off reads low and is on
C4_Witness ==
    /\ last.op \in Refreshes /\ last.err = "none"
    /\ entity[last.ent].cls = "ZigBeeDigitalOut"
    /\ Get(cfgfile[last.ent].config, "on_state", <<>>) = <<"L","O","W">>
    /\ last.events[1].ret = XB_GPIO_DIGITAL_OUTPUT_LOW
    /\ ~last.pre._state
    /\ state(entity[last.ent]) = STATE_ON

\* C5: should_poll of an entity is the "poll" value of its entry when there
\* is one; without one it is true for the two inputs and false for the output.
C5_DefaultPoll ==
    \A e \in Entities :
        entity[e].exists =>
            entity_should_poll(entity[e]) =
                IF "poll" \in DOMAIN cfgfile[e].config
                THEN cfgfile[e].config.poll
                ELSE entity[e].cls # "ZigBeeDigitalOut"

\* An output without "poll", an input without "poll" and an output with
\* "poll": True are not all one witness; this is the output without "poll"
C5_Witness ==
    \E e \in Entities :
        /\ entity[e].exists
        /\ entity[e].cls = "ZigBeeDigitalOut"
        /\ "poll" \notin DOMAIN cfgfile[e].config
        /\ ~entity_should_poll(entity[e])

\* C6: with on_state "low" in either case true maps to the driver's low
\* constant and false to its high constant, with any other on_state or none
\* the reverse, no error is raised, and each of the two maps undoes the other.
C6_PolarityMaps ==
    /\ last.op = "__init__" => last.err = "none"
    /\ \A e \in Entities :
        (entity[e].exists /\ entity[e].cls \in Digital) =>
            LET config == cfgfile[e].config
                b2s == entity[e]._config._bool2state
                s2b == entity[e]._config._state2bool
                low == "on_state" \in DOMAIN config /\ config.on_state \in LowSpellings
                LOW == XB_GPIO_DIGITAL_OUTPUT_LOW
                HIGH == XB_GPIO_DIGITAL_OUTPUT_HIGH
            IN  /\ b2s[TRUE] = IF low THEN LOW ELSE HIGH
                /\ b2s[FALSE] = IF low THEN HIGH ELSE LOW
                /\ \A b \in BOOLEAN : b2s[b] \in DOMAIN s2b /\ s2b[b2s[b]] = b
                /\ \A r \in {LOW, HIGH} : r \in DOMAIN s2b /\ b2s[s2b[r]] = r

\* The maps of a configuration object that was built once setup() had copied
\* the driver's constants are as C6 says
PolarityMapsAfterSetup ==
    \A e \in Entities :
        (/\ entity[e].exists
         /\ entity[e].cls \in Digital
         /\ entity[e]._config._bool2state[TRUE] # None) =>
            LET config == cfgfile[e].config
                b2s == entity[e]._config._bool2state
                s2b == entity[e]._config._state2bool
                low == "on_state" \in DOMAIN config /\ config.on_state \in LowSpellings
                LOW == XB_GPIO_DIGITAL_OUTPUT_LOW
                HIGH == XB_GPIO_DIGITAL_OUTPUT_HIGH
            IN  /\ b2s[TRUE] = IF low THEN LOW ELSE HIGH
                /\ b2s[FALSE] = IF low THEN HIGH ELSE LOW
                /\ \A b \in BOOLEAN : b2s[b] \in DOMAIN s2b /\ s2b[b2s[b]] = b
                /\ \A r \in {LOW, HIGH} : r \in DOMAIN s2b /\ b2s[s2b[r]] = r

\* An entry with its name, its pin and, if it has an address, hex digits
ValidEntry(x) ==
    /\ {"name", "pin"} \subseteq DOMAIN x.config
    /\ "address" \in DOMAIN x.config => unhexlify(x.config.address).err = "none"

\* C7: an entry without name or pin, or with an address that is not hex, is
\* refused when it is built: no entity exists for it, no job is submitted for
\* it, and no later call on an entity ends with the entry's error.
C7_ConfigErrorsAtConstruction ==
    /\ \A e \in Entities : (entity[e].exists \/ jobs[e] > 0) => ValidEntry(cfgfile[e])
    /\ (last.op \in Refreshes \cup {"_set_state", "name"} /\ last.events = <<>>) =>
           last.err \notin {"KeyError", "binascii.Error"}

\* C8: a failed device read in update() reaches the caller, changes no
\* entity, no job and no global, and the host is not notified; and once reads
\* have failed, a read or write the device serves still returns and sets the
\* cache of its entity.
C8_ReadFailureStep ==
    (last'.op \in Refreshes /\ last'.events # <<>> /\ ~last'.events[1].ok) =>
        /\ last'.err = "DriverError"
        /\ Len(last'.events) = 1
        /\ last'.events[1].call \in DeviceReads
        /\ entity' = entity
        /\ globals' = globals
        /\ \A e \in Entities : e # last'.ent => jobs'[e] = jobs[e]

C8_UsableAfterFailure ==
    failed # {} =>
        LET self == entity[last.ent]
        IN  /\ (last.op \in Refreshes /\ Served /\ self.cls = Analog) =>
                   last.err = "none" /\ self._value = Value(last.events[1].ret)
            /\ (/\ last.op \in Refreshes /\ Served /\ self.cls \in Digital
                /\ last.events[1].ret \in {self._config._bool2state[b] : b \in BOOLEAN}) =>
                   /\ last.err = "none"
                   /\ self._state = (last.events[1].ret = self._config._bool2state[TRUE])
            /\ (last.op = "_set_state" /\ Served) =>
                   last.err = "none" /\ self._state = last.arg

C9_ConstructionSchedulesOneJob ==
    /\ last.op = "__init__" =>
           /\ last.err = "none"
           /\ last.events = <<[call |-> "add_job", job |-> "update_ha_state",
                               force_refresh |-> TRUE]>>
           /\ jobs[last.ent] = 1
           /\ entity[last.ent].exists
           /\ IF entity[last.ent].cls = Analog
              THEN entity[last.ent]._value = NoValue
              ELSE entity[last.ent]._state = FALSE
    /\ \A e \in Entities : jobs[e] \in {0, 1} /\ (jobs[e] = 1 => entity[e].exists)

\* An entity was built while there is no device: setup() could not open the port
C9_Witness ==
    /\ last.op = "__init__"
    /\ setupResult = "False" /\ DEVICE = None
    /\ jobs[last.ent] = 1

\* C10: update() of an analog entity asks read_analog_pin for its own pin,
\* with max_volts of its entry (1.2 V without one), its address and the
\* percentage mode; when the device answers, the cached value, the state and
\* the state the host is told are the number it returned; the unit is "%";
\* nothing is written to the pin of an analog entity.
C10_AnalogUpdate ==
    (last.ent \in Entities /\ entity[last.ent].exists /\ entity[last.ent].cls = Analog) =>
        LET self == entity[last.ent]
            config == cfgfile[last.ent].config
        IN  /\ unit_of_measurement(self) = "%"
            /\ last.op # "_set_state"
            /\ \A i \in DOMAIN last.events : last.events[i].call # "set_gpio_pin"
            /\ (last.op \in Refreshes /\ last.events # <<>>) =>
                   LET read == last.events[1]
                   IN  /\ read.call = "read_analog_pin"
                       /\ read.pin = config.pin
                       /\ read.max_volts =
                            IF "max_volts" \notin DOMAIN config THEN 1200
                            ELSE IF config.max_volts = <<"2",".","4">> THEN 2400
                            ELSE 3300
                       /\ read.address =
                            IF "address" \in DOMAIN config THEN Bytes(<<26>>) ELSE NoAddress
                       /\ read.mode = XB_ADC_PERCENTAGE
                       /\ read.ok =>
                            /\ last.err = "none"
                            /\ self._value = Value(read.ret)
                            /\ analog_state(self) = Value(read.ret)
                            /\ last.op # "update" =>
                                 /\ Len(last.events) = 2
                                 /\ last.events[2].state = Value(read.ret)

\* max_volts "2.4": the device returned 50 and the state is 50
C10_Witness ==
    /\ last.ent \in Entities
    /\ entity[last.ent].exists /\ entity[last.ent].cls = Analog
    /\ Get(cfgfile[last.ent].config, "max_volts", <<>>) = <<"2",".","4">>
    /\ last.op = "job" /\ Served
    /\ last.events[1].ret = 50
    /\ analog_state(entity[last.ent]) = Value(50)

\* C11: setup() that cannot open the port returns False and leaves DEVICE
\* unset and the bus without listener; setup() that opens it returns True, sets
\* DEVICE and registers close_serial_port once, for the stop event; either
\* way the call creates no entity and no job.  The listener is called once,
\* when the host stops, and closes the port.
C11_SetupStep ==
    last'.op = "setup" => (entity' = entity /\ jobs' = jobs)

C11_SetupState ==
    /\ listeners \in {0, 1}
    /\ setupResult = "False" => (DEVICE = None /\ listeners = 0 /\ serial = "none")
    /\ setupResult = "True" =>
           /\ DEVICE = "ZigBee"
           /\ listeners = (IF stopped THEN 0 ELSE 1)
           /\ serial = (IF stopped THEN "closed" ELSE "open")
    /\ setupResult = "none" => (DEVICE = None /\ listeners = 0 /\ serial = "none")
    /\ (last.op = "setup" /\ last.err # "none") =>
           (setupResult = "False" /\ last.events = <<>>)
    /\ (last.op = "setup" /\ last.err = "none") =>
           /\ setupResult = "True"
           /\ Len(last.events) = 1
           /\ last.events[1].call = "listen_once"
           /\ last.events[1].event = "homeassistant_stop"
           /\ last.events[1].listener = "close_serial_port"
    /\ last.op = "stop" => Len(last.events) = (IF setupResult = "True" THEN 1 ELSE 0)

C11_Setup == [][C11_SetupStep]_vars /\ []C11_SetupState

\* setup() has just failed to open the port, with an entity already built
C11_Witness ==
    /\ last.op = "setup" /\ last.err = "SerialException"
    /\ setupResult = "False" /\ DEVICE = None /\ listeners = 0
    /\ \E e \in Entities : entity[e].exists

\* The address the last call passed to the device, when its entry has one
PassedAddress ==
    /\ last.ent \in Entities
    /\ last.events # <<>>
    /\ last.events[1].call \in DeviceReads \cup {"set_gpio_pin"}
    /\ "address" \in DOMAIN cfgfile[last.ent].config

C13_CacheIsLastWritten ==
    (race.upd = "idle" /\ race.set = "idle" /\ race.wrote) =>
        \A e \in Entities : entity[e].exists => entity[e]._state = race.written

\* C14: in every state, every constructed digital pin config has a
\* state2bool with exactly two keys, the driver's two distinct levels, that
\* is the exact inverse of bool2state.
C14_BooleanMapsBijection ==
    \A e \in Entities :
        (entity[e].exists /\ entity[e].cls \in Digital) =>
            LET b2s == entity[e]._config._bool2state
                s2b == entity[e]._config._state2bool
            IN  /\ b2s[TRUE] # b2s[FALSE]
                /\ DOMAIN s2b = {XB_GPIO_DIGITAL_OUTPUT_LOW, XB_GPIO_DIGITAL_OUTPUT_HIGH}
                /\ Cardinality(DOMAIN s2b) = 2
                /\ \A b \in BOOLEAN : b2s[b] \in DOMAIN s2b /\ s2b[b2s[b]] = b

\* The lifecycle of an entity: not constructed; constructed and no update()
\* of it has returned yet; an update() of it has returned
Uninitialized(e) == ~entity[e].exists
Pending(e) == entity[e].exists /\ "refreshed" \notin log[e]
Synced(e) == entity[e].exists /\ "refreshed" \in log[e]

\* The host notifications among the events of a call
Notifications(events) ==
    Cardinality({i \in DOMAIN events : events[i].call = "update_ha_state"})

\* The last call read the device and the device answered with one of its two
\* output levels, or with a number
Answered ==
    /\ Served
    /\ \/ last.events[1].call = "read_analog_pin"
       \/ /\ last.events[1].call = "get_gpio_pin"
          /\ last.events[1].ret \in {XB_GPIO_DIGITAL_OUTPUT_LOW, XB_GPIO_DIGITAL_OUTPUT_HIGH}

\* The entity of the last call was built once setup() had copied the driver's
\* constants, or is analog
BuiltAfterSetup ==
    /\ last.ent \in Entities
    /\ entity[last.ent].exists
    /\ entity[last.ent].cls \in Digital => entity[last.ent]._config._bool2state[TRUE] # None

\* C15: a constructor leaves its entity pending with its one job submitted;
\* when the job has run and the device has answered its read, the entity is
\* synced; a job that raised has left the entity as it was; and an entity that
\* has been synced exists ever after.
C15_Lifecycle ==
    /\ \A e \in Entities : "refreshed" \in log[e] => Synced(e)
    /\ last.op = "__init__" => Pending(last.ent) /\ jobs[last.ent] = 1
    /\ (last.op = "job" /\ last.err # "none") => entity[last.ent] = last.pre
    /\ (last.op = "job" /\ Answered) => Synced(last.ent)

\* The job of an entity built after setup() syncs it when the device answers
LifecycleAfterSetup ==
    (last.op = "job" /\ Answered /\ BuiltAfterSetup) => Synced(last.ent)

\* C16: a _set_state() that returns has notified the host once when the
\* output is not polled and not at all when it is; and when an output that was
\* written is polled and the device answers the read, that poll notifies the
\* host once.
C16_WriteIsNotified ==
    /\ (last.op = "_set_state" /\ last.err = "none") =>
           Notifications(last.events) =
               IF entity_should_poll(entity[last.ent]) THEN 0 ELSE 1
    /\ (last.op = "poll" /\ "written" \in log[last.ent] /\ Answered) =>
           Notifications(last.events) = 1

\* The answered poll of a written output built after setup() notifies once
WriteIsNotifiedAfterSetup ==
    (last.op = "poll" /\ "written" \in log[last.ent] /\ Answered /\ BuiltAfterSetup) =>
        Notifications(last.events) = 1

\* C17: an entity none of whose update() and _set_state() calls has returned
\* has its initial cache: False and the state "off" when digital, no value
\* when analog.
C17_InitialUntilFirstSuccess ==
    \A e \in Entities :
        (entity[e].exists /\ log[e] = {}) =>
            IF entity[e].cls = Analog
            THEN entity[e]._value = NoValue /\ analog_state(entity[e]) = NoValue
            ELSE entity[e]._state = FALSE /\ state(entity[e]) = STATE_OFF

\* A read of the entity and a write to it have failed at the device and no
\* call of it has returned yet
C17_Witness ==
    /\ last.op = "_set_state" /\ Unserved
    /\ last.ent \in failed
    /\ log[last.ent] = {}
    /\ jobs[last.ent] = 0

\* C18: the cached value of an analog input is no value or a number from 0
\* to 100.
C18_AnalogRange ==
    \A e \in Entities :
        (entity[e].exists /\ entity[e].cls = Analog) =>
            \/ entity[e]._value = NoValue
            \/ entity[e]._value.num \in 0..100

\* C19: a step that is an update() or a _set_state() of one entity leaves
\* every other entity as it was, leaves the configuration of its own entity and
\* the entries as they were, and leaves the module's globals as they were.
C19_IsolationStep ==
    (last'.ent \in Entities /\ last'.op \in Refreshes \cup {"_set_state"}) =>
        /\ \A o \in Entities : o # last'.ent => entity'[o] = entity[o]
        /\ entity'[last'.ent]._config = entity[last'.ent]._config
        /\ cfgfile' = cfgfile
        /\ globals' = globals

C19_Isolation == [][C19_IsolationStep]_vars

\* Two outputs of the same pin of the local device: the first has been turned
\* on and the second is off
C19_Witness ==
    /\ \A e \in Entities : entity[e].exists /\ entity[e].cls = "ZigBeeDigitalOut"
    /\ pin(entity["e1"]._config) = pin(entity["e2"]._config)
    /\ address(entity["e1"]._config) = address(entity["e2"]._config)
    /\ last.op = "_set_state" /\ last.ent = "e1" /\ last.arg /\ last.err = "none"
    /\ entity["e1"]._state /\ ~entity["e2"]._state

====
